---- MODULE Spec2Model ----
(***************************************************************************)
(* Model of src/First_Exercise/Third/third.c: a coordinator process that   *)
(* forks P workers, each counting a target byte in its segment of an       *)
(* in-memory buffer and reporting the count over its own pipe, while       *)
(* SIGINT prints a debounced status line and SIGCHLD reaps workers.        *)
(*                                                                         *)
(* Time is a discrete clock of ticks, TicksPerSec to the second.           *)
(* time(NULL) is the clock in whole seconds.                               *)
(***************************************************************************)
EXTENDS Integers, Sequences, FiniteSets, TLC

\* ------------------------------------------------------------------ bounds
MaxLen == 2
MaxP == 2
MaxSec == 11
MaxPlanLen == 9
MaxPlanP == 5
TicksPerSec == 2
MaxEnvLen == 3

\* ------------------------------------------------------- program constants
TIMEOUT_SEC == 5
COUNT_SIZE == 8
DEBOUNCE_SEC == 1

Bytes == {"a", "b"}

\* ------------------------------------------------------------- pure helpers
Min(x, y) == IF x < y THEN x ELSE y

\* off_t base_size = file_size / P; off_t remainder = file_size % P;
base_size(file_size, p) == file_size \div p
remainder(file_size, p) == file_size % p

\* Mutant of SegStart: the whole remainder added for every index.
SegStartWholeRemainder(file_size, p, k) ==
    k * base_size(file_size, p) + remainder(file_size, p)

\* start = i * base_size + (i < remainder ? i : remainder)
SegStart(file_size, p, k) ==
    k * base_size(file_size, p)
      + (IF k < remainder(file_size, p) THEN k ELSE remainder(file_size, p))

\* Mutant of SegSize: the extra element of the first segments forgotten.
SegSizeNoExtra(file_size, p, k) == base_size(file_size, p)

\* segment_size = base_size + (i < remainder ? 1 : 0)
SegSize(file_size, p, k) ==
    base_size(file_size, p) + (IF k < remainder(file_size, p) THEN 1 ELSE 0)

\* end = start + segment_size
SegEnd(file_size, p, k) == SegStart(file_size, p, k) + SegSize(file_size, p, k)

\* for (j = start; j < end; j++) if (buf[j] == c) count++;
\* buf is 0-indexed in the program and 1-indexed here.
RECURSIVE ScanFrom(_, _, _, _)
ScanFrom(b, c, j, end) ==
    IF j >= end THEN 0
    ELSE (IF b[j + 1] = c THEN 1 ELSE 0) + ScanFrom(b, c, j + 1, end)

\* Mutant of WorkerCount: every worker scans the whole buffer.
WorkerCountWholeBuffer(b, c, p, k) == ScanFrom(b, c, 0, Len(b))

\* the worker's count for segment k
WorkerCount(b, c, p, k) ==
    ScanFrom(b, c, SegStart(Len(b), p, k), SegEnd(Len(b), p, k))

\* for (i = 0; i < st_size; i++) if (buf[i] == c) count++;   (count_char.c)
SequentialCount(b, c) == ScanFrom(b, c, 0, Len(b))

\* time(NULL): the clock in whole seconds
TimeOf(t) == t \div TicksPerSec

\* The characters of the value of the environment variable P.
Digit == <<"0", "1", "2", "3", "4", "5", "6", "7", "8", "9">>
IsDigit(ch) == \E n \in 1 .. 10 : Digit[n] = ch
DigitVal(ch) == (CHOOSE n \in 1 .. 10 : Digit[n] = ch) - 1

\* atoi(): white space is skipped, then an optional sign, then the decimal
\* digits up to the first character that is not one; no digit gives 0.
RECURSIVE AtoiDigits(_, _, _)
AtoiDigits(s, j, acc) ==
    IF j > Len(s) \/ ~IsDigit(s[j]) THEN acc
    ELSE AtoiDigits(s, j + 1, acc * 10 + DigitVal(s[j]))

RECURSIVE SkipSpace(_, _)
SkipSpace(s, j) ==
    IF j <= Len(s) /\ s[j] = " " THEN SkipSpace(s, j + 1) ELSE j

atoi(s) ==
    LET j == SkipSpace(s, 1)
    IN IF j <= Len(s) /\ s[j] = "-" THEN 0 - AtoiDigits(s, j + 1, 0)
       ELSE IF j <= Len(s) /\ s[j] = "+" THEN AtoiDigits(s, j + 1, 0)
       ELSE AtoiDigits(s, j, 0)

\* ------------------------------------------------------------------- state
VARIABLES
    buf, target, P,          \* the job: file contents, character, int P
    env_p,                   \* getenv("P"), a sequence of characters
    segs,                    \* <<start, segment_size>> computed so far, by index
    pc,                      \* where main() of the coordinator is
    i,                       \* loop index of the current loop of main()
    total_count, child_count, read_bytes,
    exit_code,               \* -1 while the coordinator runs
    result_file,             \* <<>> or <<count written to the output file>>
    active_children,         \* volatile sig_atomic_t active_children
    sigchld_pending,         \* a SIGCHLD is pending for the coordinator
    rd_open,                 \* channels whose read end the coordinator holds
    wr_open,                 \* channels whose write end the coordinator holds
    wfd,                     \* write ends each worker got from fork()
    w,                       \* life cycle of each worker
    wstatus,                 \* how each worker terminated
    pipe_avail, pipe_val,    \* bytes in each pipe, and the value they encode
    recv,                    \* what the coordinator got from each channel
    timeout_msgs,            \* indexes printed in "Timeout waiting ... pipe %d"
    clock,                   \* real time in ticks
    last_print,              \* static time_t last_print of sigint_handler
    deadline,                \* tick at which the running select() expires
    recv_start,              \* tick at which the running receive began
    lastTrig,                \* tick of the last SIGINT of the coordinator
    lastPrintAt              \* tick of the last printed status line

jobVars == <<buf, target, P, env_p, segs>>
mainVars == <<pc, i, total_count, child_count, read_bytes, exit_code,
              result_file, rd_open, wr_open, recv, timeout_msgs>>
sigVars == <<active_children, sigchld_pending>>
workerVars == <<w, wstatus, wfd, pipe_avail, pipe_val>>
timerVars == <<deadline, recv_start>>
reportVars == <<last_print, lastTrig, lastPrintAt>>
vars == <<jobVars, mainVars, sigVars, workerVars, timerVars, reportVars, clock>>

Idx == 0 .. MaxP - 1
Timeout == TIMEOUT_SEC * TicksPerSec
Start == TicksPerSec             \* the program starts at time(NULL) = 1
MaxClock == MaxSec * TicksPerSec \* the last tick explored

Buffers == UNION {[1 .. n -> Bytes] : n \in 0 .. MaxLen}
\* Values of the environment variable P: "-1", "0", "1", ..., up to MaxP.
EnvValues == {<<"-", "1">>} \cup {<<Digit[n + 1]>> : n \in 0 .. MaxP}
PValues == {atoi(e) : e \in EnvValues}

\* A worker is "forked" from fork() until it has ignored SIGINT, "handler"
\* while a signal handler runs in it, "scan" until it has written, "wrote"
\* until it exits, a "zombie" until its status is collected, then "reaped".
Alive(k) == w[k] \in {"forked", "handler", "scan", "wrote"}
Terminated(k) == w[k] \in {"zombie", "reaped"}

\* Some process still holds the read end of pipe k: the coordinator, or a
\* worker forked after pipe k was created (it inherited pipes[k][0] and never
\* closes it; worker k itself closes its copy before it scans).
HasReader(k) ==
    \/ pc # "exited" /\ k \in rd_open
    \/ \E j \in Idx : j > k /\ Alive(j)

\* Some process still holds the write end of pipe k: the coordinator until
\* it calls close(pipes[k][1]) or ends, a worker that got the descriptor
\* from fork() until it ends (a worker closes pipes[i][1] only on its way
\* to exit()).
HasWriter(k) ==
    \/ pc # "exited" /\ k \in wr_open
    \/ \E j \in Idx : Alive(j) /\ k \in wfd[j]

\* select() reports pipes[k][0] readable: data, or end of file.
Readable(k) == pipe_avail[k] > 0 \/ ~HasWriter(k)

\* The first n bytes of a little-endian 64-bit value, the rest still zero.
RECURSIVE FirstBytes(_, _)
FirstBytes(v, n) ==
    IF n = 0 THEN 0 ELSE (v % 256) + 256 * FirstBytes(v \div 256, n - 1)

\* The state of a process that has not run yet.
Rest ==
    /\ segs = <<>>
    /\ pc = "start"
    /\ i = 0
    /\ total_count = 0
    /\ child_count = 0
    /\ read_bytes = 0
    /\ exit_code = -1
    /\ result_file = <<>>
    /\ active_children = 0
    /\ sigchld_pending = FALSE
    /\ rd_open = {}
    /\ wr_open = {}
    /\ wfd = [k \in Idx |-> {}]
    /\ w = [k \in Idx |-> "none"]
    /\ wstatus = [k \in Idx |-> "none"]
    /\ pipe_avail = [k \in Idx |-> 0]
    /\ pipe_val = [k \in Idx |-> 0]
    /\ recv = [k \in Idx |-> "none"]
    /\ timeout_msgs = {}
    /\ clock = Start
    /\ last_print = 0
    /\ deadline = 0
    /\ recv_start = 0
    /\ lastTrig = -1
    /\ lastPrintAt = -1

Init ==
    /\ buf \in Buffers
    /\ target \in Bytes
    /\ env_p \in EnvValues
    /\ P = atoi(env_p)
    /\ Rest

\* ------------------------------------------------------- the coordinator
\* return EXIT_FAILURE / EXIT_SUCCESS from main(): the process ends and no
\* handler of it runs any more.  rd_open keeps the read ends main() has not
\* passed to close(); the kernel releases them with the process (HasReader).
Exit(code) ==
    /\ pc' = "exited"
    /\ exit_code' = code
    /\ UNCHANGED <<rd_open, wr_open>>
    /\ sigchld_pending' = FALSE

\* Top of one iteration of the collection loop, up to the call of select():
\* child_count = 0, read_bytes = 0, tv = {5, 0}.
EnterSelect(k) ==
    /\ pc' = "select"
    /\ i' = k
    /\ child_count' = 0
    /\ read_bytes' = 0
    /\ deadline' = clock + Timeout
    /\ recv_start' = clock

\* select() has returned: no timer runs.
LeaveSelect ==
    /\ deadline' = 0
    /\ recv_start' = 0

\* main() up to the fork loop: the empty-file check, the check of P, the
\* two sigaction() calls, active_children = P.
Startup ==
    /\ pc = "start"
    /\ IF Len(buf) = 0 \/ P <= 0
       THEN /\ Exit(1)
            /\ UNCHANGED active_children
       ELSE /\ pc' = "pipe"
            /\ active_children' = P
            /\ UNCHANGED <<exit_code, rd_open, wr_open, sigchld_pending>>
    /\ UNCHANGED <<jobVars, i, total_count, child_count, read_bytes,
                   result_file, recv, timeout_msgs, workerVars, timerVars,
                   reportVars, clock>>

\* pipe(pipes[i]), which may fail: on success the coordinator holds both
\* ends.
PipeCreate ==
    /\ pc = "pipe"
    /\ \/ /\ pc' = "fork"
          /\ rd_open' = rd_open \cup {i}
          /\ wr_open' = wr_open \cup {i}
          /\ UNCHANGED <<exit_code, sigchld_pending>>
       \/ Exit(1)
    /\ UNCHANGED <<jobVars, i, total_count, child_count, read_bytes,
                   result_file, recv, timeout_msgs, active_children,
                   workerVars, timerVars, reportVars, clock>>

\* Mutant of Reap: waitpid() returns only for a worker that is still a
\* zombie, and blocks on one the handler has reaped already.
ReapZombieOnly ==
    /\ pc = "reap"
    /\ w[i] = "zombie"
    /\ w' = [w EXCEPT ![i] = "reaped"]
    /\ IF i + 1 < P
       THEN /\ i' = i + 1
            /\ pc' = "reap"
       ELSE /\ i' = i
            /\ pc' = "output"
    /\ UNCHANGED <<jobVars, total_count, child_count, read_bytes, exit_code,
                   result_file, rd_open, wr_open, recv, timeout_msgs, sigVars,
                   wstatus, wfd, pipe_avail, pipe_val, timerVars,
                   reportVars, clock>>

\* Mutant of ForkWorker: a failed fork() is skipped and the job carries on.
ForkWorkerCarryOn ==
    /\ pc = "fork"
    /\ \/ /\ w' = [w EXCEPT ![i] = "forked"]
          /\ wfd' = [wfd EXCEPT ![i] = wr_open]
       \/ UNCHANGED <<w, wfd>>
    /\ wr_open' = wr_open \ {i}
    /\ IF i + 1 < P
       THEN /\ pc' = "pipe"
            /\ i' = i + 1
            /\ UNCHANGED <<child_count, read_bytes, timerVars>>
       ELSE EnterSelect(0)
    /\ UNCHANGED <<exit_code, rd_open, sigchld_pending>>
    /\ UNCHANGED <<jobVars, total_count, result_file, recv, timeout_msgs,
                   active_children, wstatus, pipe_avail, pipe_val,
                   reportVars, clock>>

\* Mutant of ForkWorker: the coordinator does not close its copy of the
\* write end after fork().
ForkWorkerKeepsWriteEnd ==
    /\ pc = "fork"
    /\ \/ /\ w' = [w EXCEPT ![i] = "forked"]
          /\ wfd' = [wfd EXCEPT ![i] = wr_open]
          /\ UNCHANGED wr_open
          /\ IF i + 1 < P
             THEN /\ pc' = "pipe"
                  /\ i' = i + 1
                  /\ UNCHANGED <<child_count, read_bytes, timerVars>>
             ELSE EnterSelect(0)
          /\ UNCHANGED <<exit_code, rd_open, sigchld_pending>>
       \/ /\ Exit(1)
          /\ UNCHANGED <<w, wfd, i, child_count, read_bytes, timerVars>>
    /\ UNCHANGED <<jobVars, total_count, result_file, recv, timeout_msgs,
                   active_children, wstatus, pipe_avail, pipe_val,
                   reportVars, clock>>

\* fork(), which may fail: the child starts with a copy of every descriptor
\* the coordinator holds; in the parent child_pids[i] = pid and
\* close(pipes[i][1]), then the next iteration or the collection loop.
ForkWorker ==
    /\ pc = "fork"
    /\ \/ /\ w' = [w EXCEPT ![i] = "forked"]
          /\ wfd' = [wfd EXCEPT ![i] = wr_open]
          /\ wr_open' = wr_open \ {i}
          /\ IF i + 1 < P
             THEN /\ pc' = "pipe"
                  /\ i' = i + 1
                  /\ UNCHANGED <<child_count, read_bytes, timerVars>>
             ELSE EnterSelect(0)
          /\ UNCHANGED <<exit_code, rd_open, sigchld_pending>>
       \/ /\ Exit(1)
          /\ UNCHANGED <<w, wfd, i, child_count, read_bytes, timerVars>>
    /\ UNCHANGED <<jobVars, total_count, result_file, recv, timeout_msgs,
                   active_children, wstatus, pipe_avail, pipe_val,
                   reportVars, clock>>

\* select() returns with pipes[i][0] set in readfds.
SelectReady ==
    /\ pc = "select"
    /\ Readable(i)
    /\ pc' = "read"
    /\ LeaveSelect
    /\ UNCHANGED <<jobVars, i, total_count, child_count, read_bytes,
                   exit_code, result_file, rd_open, wr_open, recv, timeout_msgs,
                   sigVars, workerVars, reportVars, clock>>

\* select() returns 0: the timer ran out with nothing to read; the else
\* branch prints "Timeout waiting for data on pipe %d".
SelectTimeout ==
    /\ pc = "select"
    /\ ~Readable(i)
    /\ clock >= deadline
    /\ timeout_msgs' = timeout_msgs \cup {i}
    /\ recv' = [recv EXCEPT ![i] = "timeout"]
    /\ pc' = "close"
    /\ LeaveSelect
    /\ UNCHANGED <<jobVars, i, total_count, child_count, read_bytes,
                   exit_code, result_file, rd_open, wr_open, sigVars, workerVars,
                   reportVars, clock>>

\* select() returns -1 with errno other than EINTR.
SelectError ==
    /\ pc = "select"
    /\ Exit(1)
    /\ LeaveSelect
    /\ UNCHANGED <<jobVars, i, total_count, child_count, read_bytes,
                   result_file, recv, timeout_msgs, active_children,
                   workerVars, reportVars, clock>>

\* One read() of the read loop, and what follows the loop when it ends:
\* total_count += child_count.
ReadPipe ==
    /\ pc = "read"
    /\ \/ /\ pipe_avail[i] > 0
          /\ LET n == Min(pipe_avail[i], COUNT_SIZE - read_bytes)
                 got == FirstBytes(pipe_val[i], read_bytes + n)
             IN /\ pipe_avail' = [pipe_avail EXCEPT ![i] = @ - n]
                /\ read_bytes' = read_bytes + n
                /\ child_count' = got
                /\ IF read_bytes + n < COUNT_SIZE
                   THEN UNCHANGED <<pc, total_count, recv>>
                   ELSE /\ total_count' = total_count + got
                        /\ recv' = [recv EXCEPT ![i] = "data"]
                        /\ pc' = "close"
          /\ UNCHANGED <<exit_code, rd_open, wr_open, sigchld_pending>>
       \/ /\ pipe_avail[i] = 0
          /\ ~HasWriter(i)
          /\ total_count' = total_count + child_count
          /\ recv' = [recv EXCEPT ![i] = "closed"]
          /\ pc' = "close"
          /\ UNCHANGED <<exit_code, rd_open, wr_open, sigchld_pending, pipe_avail,
                         read_bytes, child_count>>
       \/ /\ Exit(1)
          /\ UNCHANGED <<total_count, recv, pipe_avail, read_bytes,
                         child_count>>
    /\ UNCHANGED <<jobVars, i, result_file, timeout_msgs, active_children,
                   w, wstatus, wfd, pipe_val, timerVars, reportVars, clock>>

\* close(pipes[i][0]), then the next iteration or the reaping loop.
CloseRead ==
    /\ pc = "close"
    /\ rd_open' = rd_open \ {i}
    /\ UNCHANGED wr_open
    /\ IF i + 1 < P
       THEN EnterSelect(i + 1)
       ELSE /\ pc' = "reap"
            /\ i' = 0
            /\ UNCHANGED <<child_count, read_bytes, timerVars>>
    /\ UNCHANGED <<jobVars, total_count, exit_code, result_file, recv,
                   timeout_msgs, sigVars, workerVars, reportVars, clock>>

\* What follows one waitpid() of the reaping loop: the next iteration, or
\* the code after the loop.
AfterWaitpid ==
    IF i + 1 < P
    THEN /\ i' = i + 1
         /\ pc' = "reap"
    ELSE /\ i' = i
         /\ pc' = "output"

\* waitpid(child_pids[i], NULL, 0) returns: worker i has terminated (its
\* status is collected here), or the handler has reaped it before (ECHILD).
\* The return value is not looked at.
Reap ==
    /\ pc = "reap"
    /\ Terminated(i)
    /\ w' = [w EXCEPT ![i] = "reaped"]
    /\ AfterWaitpid
    /\ UNCHANGED <<jobVars, total_count, child_count, read_bytes, exit_code,
                   result_file, rd_open, wr_open, recv, timeout_msgs, sigVars,
                   wstatus, wfd, pipe_avail, pipe_val, timerVars,
                   reportVars, clock>>

\* The result is written to the output file (which may fail) and main()
\* returns.
WriteOutput ==
    /\ pc = "output"
    /\ \/ /\ result_file' = <<total_count>>
          /\ Exit(0)
       \/ /\ UNCHANGED result_file
          /\ Exit(1)
    /\ UNCHANGED <<jobVars, i, total_count, child_count, read_bytes, recv,
                   timeout_msgs, active_children, workerVars, timerVars,
                   reportVars, clock>>

\* --------------------------------------------------------------- signals
\* The coordinator runs with both handlers installed.
Installed == pc \notin {"start", "exited"}

\* Mutant of sigint_handler: "<=" for "<" in the debounce test.
sigint_handler_le ==
    LET now == TimeOf(clock)
    IN /\ lastTrig' = clock
       /\ IF now - last_print <= DEBOUNCE_SEC
          THEN UNCHANGED <<last_print, lastPrintAt>>
          ELSE /\ last_print' = now
               /\ lastPrintAt' = clock

\* sigint_handler(): the whole-second debounce and the status line.
sigint_handler ==
    LET now == TimeOf(clock)
    IN /\ lastTrig' = clock
       /\ IF now - last_print < DEBOUNCE_SEC
          THEN UNCHANGED <<last_print, lastPrintAt>>
          ELSE /\ last_print' = now
               /\ lastPrintAt' = clock

\* select() interrupted by a handler returns -1 with EINTR, also under
\* SA_RESTART; the loop continues and calls select() with tv = {5, 0} again.
SelectRetry ==
    IF pc = "select"
    THEN /\ deadline' = clock + Timeout
         /\ UNCHANGED recv_start
    ELSE UNCHANGED timerVars

\* Mutant of sigchld_handler: one waitpid() per invocation, no loop.
sigchld_handler_single ==
    LET zombies == {k \in Idx : w[k] = "zombie"}
        first == IF zombies = {} THEN {}
                 ELSE {CHOOSE k \in zombies : \A j \in zombies : k <= j}
    IN /\ w' = [k \in Idx |-> IF k \in first THEN "reaped" ELSE w[k]]
       /\ active_children' = active_children - Cardinality(first)

\* Mutant of sigchld_handler: two decrements for each worker reaped.
sigchld_handler_twice ==
    LET zombies == {k \in Idx : w[k] = "zombie"}
    IN /\ w' = [k \in Idx |-> IF k \in zombies THEN "reaped" ELSE w[k]]
       /\ active_children' = active_children - 2 * Cardinality(zombies)

\* Mutant of sigchld_handler: the counter counts up.
sigchld_handler_up ==
    LET zombies == {k \in Idx : w[k] = "zombie"}
    IN /\ w' = [k \in Idx |-> IF k \in zombies THEN "reaped" ELSE w[k]]
       /\ active_children' = active_children + Cardinality(zombies)

\* sigchld_handler(): while (waitpid(-1, NULL, WNOHANG) > 0) active_children--
\* reaps every worker that is a zombie now, one decrement each.
sigchld_handler ==
    LET zombies == {k \in Idx : w[k] = "zombie"}
    IN /\ w' = [k \in Idx |-> IF k \in zombies THEN "reaped" ELSE w[k]]
       /\ active_children' = active_children - Cardinality(zombies)

\* A pending SIGCHLD is delivered to the coordinator.
SigchldDelivered ==
    /\ Installed
    /\ sigchld_pending
    /\ sigchld_pending' = FALSE
    /\ sigchld_handler
    /\ SelectRetry
    /\ UNCHANGED <<jobVars, mainVars, wstatus, wfd, pipe_avail, pipe_val,
                   reportVars, clock>>

\* Mutant of SigintCoordinator: SIGINT with its default disposition, which
\* terminates the process.
SigintDefaultDisposition ==
    /\ Installed
    /\ Exit(1)
    /\ LeaveSelect
    /\ lastTrig' = clock
    /\ UNCHANGED <<jobVars, i, total_count, child_count, read_bytes,
                   result_file, recv, timeout_msgs, active_children,
                   workerVars, last_print, lastPrintAt, clock>>

\* SIGINT is delivered to the coordinator; a select() it interrupts is
\* retried; read() has data or end of file at hand and is not interrupted.
SigintCoordinator ==
    /\ Installed
    /\ sigint_handler
    /\ SelectRetry
    /\ UNCHANGED <<jobVars, mainVars, sigVars, workerVars, clock>>

\* SIGINT is delivered while the coordinator is blocked in waitpid() on a
\* running worker: sa_flags = 0, so waitpid() returns -1 with EINTR and the
\* loop goes on to the next worker.
SigintDuringWaitpid ==
    /\ pc = "reap"
    /\ Alive(i)
    /\ sigint_handler
    /\ AfterWaitpid
    /\ UNCHANGED <<jobVars, total_count, child_count, read_bytes, exit_code,
                   result_file, rd_open, wr_open, recv, timeout_msgs, sigVars,
                   workerVars, timerVars, clock>>

\* SIGINT is delivered to worker k.  After fork() the worker still has the
\* coordinator's handler, until it calls signal(SIGINT, SIG_IGN); from then
\* on the signal is discarded.
SigintWorker(k) ==
    /\ w[k] \in {"forked", "scan", "wrote"}
    /\ w' = [w EXCEPT ![k] = IF @ = "forked" THEN "handler" ELSE @]
    /\ UNCHANGED <<jobVars, mainVars, sigVars, wstatus, wfd, pipe_avail,
                   pipe_val, timerVars, reportVars, clock>>

\* sigint_handler() returns in worker k (it has worked on the worker's own
\* copy of last_print and written its line to the shared standard output).
WorkerHandlerReturn(k) ==
    /\ w[k] = "handler"
    /\ w' = [w EXCEPT ![k] = "forked"]
    /\ UNCHANGED <<jobVars, mainVars, sigVars, wstatus, wfd, pipe_avail,
                   pipe_val, timerVars, reportVars, clock>>

\* --------------------------------------------------------------- workers
\* Worker k terminates: a zombie until the coordinator collects its status,
\* and SIGCHLD is sent to the coordinator if it still runs.  wfd keeps the
\* descriptors the worker had; the kernel releases them with the process
\* (HasWriter).
Terminate(k, how) ==
    /\ w' = [w EXCEPT ![k] = "zombie"]
    /\ wstatus' = [wstatus EXCEPT ![k] = how]
    /\ sigchld_pending' = (sigchld_pending \/ pc # "exited")
    /\ UNCHANGED wfd

\* signal(SIGINT, SIG_IGN); close(pipes[i][0]);
WorkerSetup(k) ==
    /\ w[k] = "forked"
    /\ w' = [w EXCEPT ![k] = "scan"]
    /\ UNCHANGED <<jobVars, mainVars, sigVars, wstatus, wfd, pipe_avail,
                   pipe_val, timerVars, reportVars, clock>>

\* Mutant of WorkerWrite: the write succeeds whether or not anyone holds
\* the read end.
WorkerWriteNoReaderCheck(k) ==
    /\ w[k] = "scan"
    /\ pipe_avail' = [pipe_avail EXCEPT ![k] = COUNT_SIZE]
    /\ pipe_val' = [pipe_val EXCEPT ![k] = WorkerCount(buf, target, P, k)]
    /\ w' = [w EXCEPT ![k] = "wrote"]
    /\ UNCHANGED <<wstatus, wfd, sigchld_pending>>
    /\ UNCHANGED <<jobVars, mainVars, active_children, timerVars,
                   reportVars, clock>>

\* The scan of the segment and write(pipes[i][1], &count, sizeof(count)):
\* the 8 bytes go into the pipe at once.  When no process holds the read end
\* the worker is killed by SIGPIPE, or, if the program was started with
\* SIGPIPE ignored, write() returns -1 (EPIPE) and the worker calls
\* exit(EXIT_FAILURE).
WorkerWrite(k) ==
    /\ w[k] = "scan"
    /\ IF HasReader(k)
       THEN /\ pipe_avail' = [pipe_avail EXCEPT ![k] = COUNT_SIZE]
            /\ pipe_val' = [pipe_val EXCEPT ![k] = WorkerCount(buf, target, P, k)]
            /\ w' = [w EXCEPT ![k] = "wrote"]
            /\ UNCHANGED <<wstatus, wfd, sigchld_pending>>
       ELSE /\ \/ Terminate(k, "sigpipe")
               \/ Terminate(k, "exit1")
            /\ UNCHANGED <<pipe_avail, pipe_val>>
    /\ UNCHANGED <<jobVars, mainVars, active_children, timerVars,
                   reportVars, clock>>

\* Mutant of WorkerExit: the child branch does not end in exit(); worker k
\* goes on in main() as the coordinator would: it spawns the next worker if
\* there is none yet, writes the output file from its own total_count
\* (still 0 in its copy) and returns from main().
WorkerFallsThrough(k) ==
    /\ w[k] = "wrote"
    /\ w' = [j \in Idx |->
               IF j = k THEN "zombie"
               ELSE IF j = k + 1 /\ j < P /\ w[j] = "none" THEN "forked"
               ELSE w[j]]
    /\ wstatus' = [wstatus EXCEPT ![k] = "exit0"]
    /\ sigchld_pending' = (sigchld_pending \/ pc # "exited")
    /\ result_file' = <<0>>
    /\ UNCHANGED <<jobVars, pc, i, total_count, child_count, read_bytes,
                   exit_code, rd_open, wr_open, recv, timeout_msgs, wfd,
                   active_children, pipe_avail, pipe_val, timerVars,
                   reportVars, clock>>

\* close(pipes[i][1]); free(buf); exit(EXIT_SUCCESS);
WorkerExit(k) ==
    /\ w[k] = "wrote"
    /\ Terminate(k, "exit0")
    /\ UNCHANGED <<jobVars, mainVars, active_children, pipe_avail,
                   pipe_val, timerVars, reportVars, clock>>

\* Worker k is killed from outside (SIGKILL, SIGTERM) before it has written.
WorkerKilled(k) ==
    /\ w[k] \in {"forked", "handler", "scan"}
    /\ Terminate(k, "killed")
    /\ UNCHANGED <<jobVars, mainVars, active_children, pipe_avail,
                   pipe_val, timerVars, reportVars, clock>>

\* ------------------------------------------------------------------ time
\* One tick passes.  A select() whose timer has run out returns before the
\* next tick.
Tick ==
    /\ clock < MaxClock
    /\ ~(pc = "select" /\ clock >= deadline)
    /\ clock' = clock + 1
    /\ UNCHANGED <<jobVars, mainVars, sigVars, workerVars, timerVars,
                   reportVars>>

\* The coordinator sleeps in select() with nothing to read until the timer
\* runs out.  A pending SIGCHLD wakes it first.
Elapse ==
    /\ pc = "select"
    /\ ~Readable(i)
    /\ ~sigchld_pending
    /\ clock < deadline
    /\ deadline <= MaxClock
    /\ clock' = deadline
    /\ UNCHANGED <<jobVars, mainVars, sigVars, workerVars, timerVars,
                   reportVars>>

\* -------------------------------------------------------- specifications
Coordinator ==
    \/ Startup
    \/ PipeCreate
    \/ ForkWorker
    \/ SelectReady
    \/ SelectTimeout
    \/ SelectError
    \/ ReadPipe
    \/ CloseRead
    \/ Reap
    \/ WriteOutput

Signals ==
    \/ SigchldDelivered
    \/ SigintCoordinator
    \/ SigintDuringWaitpid
    \/ \E k \in Idx : SigintWorker(k)

Workers ==
    \E k \in Idx :
        \/ WorkerHandlerReturn(k)
        \/ WorkerSetup(k)
        \/ WorkerWrite(k)
        \/ WorkerExit(k)
        \/ WorkerKilled(k)

\* The whole program; the clock moves only while select() waits out its timer.
Next == Coordinator \/ Signals \/ Workers \/ Elapse

Spec == Init /\ [][Next]_vars

\* The program under fair scheduling: the coordinator, its timer and the
\* delivery of SIGCHLD go on when they can; a worker may be arbitrarily slow
\* and nobody has to send SIGINT.
FairSpec ==
    /\ Spec
    /\ WF_vars(Coordinator)
    /\ WF_vars(Elapse)
    /\ WF_vars(SigchldDelivered)

\* The program when nobody sends SIGINT: the only signal is SIGCHLD.
QuietWorkers ==
    \E k \in Idx :
        \/ WorkerSetup(k)
        \/ WorkerWrite(k)
        \/ WorkerExit(k)
        \/ WorkerKilled(k)

NextQuiet == Coordinator \/ SigchldDelivered \/ QuietWorkers \/ Elapse

SpecQuiet == Init /\ [][NextQuiet]_vars

\* One job with fixed timing and SIGINT at any tick: a single worker whose
\* scan ends ScanDone ticks into the run, one second after the first 5 s
\* timer of the coordinator would run out (a long segment at usleep(100000)
\* per byte), a coordinator that takes no time except where it blocks, and
\* signals delivered as soon as they are pending.
ScanDone == Start + Timeout + TicksPerSec

InitTrigger ==
    /\ buf = <<"a">>
    /\ target = "a"
    /\ env_p = <<"1">>
    /\ P = atoi(env_p)
    /\ Rest

\* The coordinator sleeps: in select() with nothing to read and time left on
\* the timer, in waitpid() on a running worker, or it has exited.
CoordinatorBlocked ==
    \/ pc = "select" /\ ~Readable(i) /\ clock < deadline
    \/ pc = "reap" /\ Alive(i)
    \/ pc = "exited"

TickTrigger ==
    /\ CoordinatorBlocked
    /\ ~sigchld_pending
    /\ ~(w[0] \in {"forked", "scan"} /\ clock >= ScanDone)
    /\ Tick

\* The worker writes at ScanDone; a timer that runs out at that very tick
\* has run out first.
SlowWorker ==
    \/ WorkerSetup(0)
    \/ /\ clock = ScanDone
       /\ ~(pc = "select" /\ clock >= deadline)
       /\ WorkerWrite(0)
    \/ WorkerExit(0)

NextTrigger ==
    \/ Coordinator
    \/ SigchldDelivered
    \/ SigintCoordinator
    \/ SigintDuringWaitpid
    \/ SlowWorker
    \/ TickTrigger

SpecTrigger == InitTrigger /\ [][NextTrigger]_vars

\* The input checks alone: an empty or a one-byte file, any short value of
\* the environment variable P, and main() up to the first pipe().
EnvChars == {"-", "0", "1", "x"}
EnvStrings == UNION {[1 .. n -> EnvChars] : n \in 0 .. MaxEnvLen}

InitParse ==
    /\ buf \in {<<>>, <<"a">>}
    /\ target = "a"
    /\ env_p \in EnvStrings
    /\ P = atoi(env_p)
    /\ Rest

NextParse == Startup \/ PipeCreate

SpecParse == InitParse /\ [][NextParse]_vars

\* One channel under the weakest behaviour read() and write() may show,
\* which the checks at the two calls provide for: read() may return fewer
\* bytes than are waiting, and write() may return short after putting only
\* part of the count into the pipe, upon which the worker calls
\* exit(EXIT_FAILURE).  One worker, any buffer.
InitRead ==
    /\ buf \in Buffers
    /\ target \in Bytes
    /\ env_p = <<"1">>
    /\ P = atoi(env_p)
    /\ Rest

\* write() returns m < sizeof(count): m bytes are in the pipe, the worker
\* reports the error, closes the write end and exits with EXIT_FAILURE.
WorkerWriteShort(k) ==
    /\ w[k] = "scan"
    /\ HasReader(k)
    /\ \E m \in 1 .. COUNT_SIZE - 1 :
          /\ pipe_avail' = [pipe_avail EXCEPT ![k] = m]
          /\ pipe_val' = [pipe_val EXCEPT
                            ![k] = FirstBytes(WorkerCount(buf, target, P, k), m)]
    /\ Terminate(k, "exit1")
    /\ UNCHANGED <<jobVars, mainVars, active_children, timerVars,
                   reportVars, clock>>

\* One read() of the read loop returning any number of the waiting bytes,
\* and what follows the loop when it ends: total_count += child_count.
ReadFragment ==
    /\ pc = "read"
    /\ \/ /\ pipe_avail[i] > 0
          /\ \E n \in 1 .. Min(pipe_avail[i], COUNT_SIZE - read_bytes) :
               LET got == FirstBytes(pipe_val[i], read_bytes + n)
               IN /\ pipe_avail' = [pipe_avail EXCEPT ![i] = @ - n]
                  /\ read_bytes' = read_bytes + n
                  /\ child_count' = got
                  /\ IF read_bytes + n < COUNT_SIZE
                     THEN UNCHANGED <<pc, total_count, recv>>
                     ELSE /\ total_count' = total_count + got
                          /\ recv' = [recv EXCEPT ![i] = "data"]
                          /\ pc' = "close"
          /\ UNCHANGED <<exit_code, rd_open, wr_open, sigchld_pending>>
       \/ /\ pipe_avail[i] = 0
          /\ ~HasWriter(i)
          /\ total_count' = total_count + child_count
          /\ recv' = [recv EXCEPT ![i] = "closed"]
          /\ pc' = "close"
          /\ UNCHANGED <<exit_code, rd_open, wr_open, sigchld_pending, pipe_avail,
                         read_bytes, child_count>>
       \/ /\ Exit(1)
          /\ UNCHANGED <<total_count, recv, pipe_avail, read_bytes,
                         child_count>>
    /\ UNCHANGED <<jobVars, i, result_file, timeout_msgs, active_children,
                   w, wstatus, wfd, pipe_val, timerVars, reportVars, clock>>

NextRead ==
    \/ Startup
    \/ PipeCreate
    \/ ForkWorker
    \/ SelectReady
    \/ ReadFragment
    \/ CloseRead
    \/ Reap
    \/ WriteOutput
    \/ SigchldDelivered
    \/ SigintCoordinator
    \/ WorkerSetup(0)
    \/ WorkerWrite(0)
    \/ WorkerWriteShort(0)
    \/ WorkerExit(0)

SpecRead == InitRead /\ [][NextRead]_vars

\* A run in which nothing fails and every worker gets to run: valid input,
\* no system call of the coordinator fails (no step sets the failure
\* status), no worker is killed from outside, SIGINT reaches the coordinator
\* only, at any time.  The coordinator, its timer, the delivery of SIGCHLD
\* and every worker go on when they can.
InitLive ==
    /\ buf \in Buffers \ {<<>>}
    /\ target \in Bytes
    /\ env_p \in {<<Digit[n + 1]>> : n \in 1 .. MaxP}
    /\ P = atoi(env_p)
    /\ Rest

LiveCoordinator ==
    /\ \/ Startup
       \/ PipeCreate
       \/ ForkWorker
       \/ SelectReady
       \/ SelectTimeout
       \/ ReadPipe
       \/ CloseRead
       \/ Reap
       \/ WriteOutput
    /\ exit_code' # 1

LiveWorker(k) ==
    \/ WorkerSetup(k)
    \/ WorkerWrite(k)
    \/ WorkerExit(k)

NextLive ==
    \/ LiveCoordinator
    \/ SigchldDelivered
    \/ SigintCoordinator
    \/ SigintDuringWaitpid
    \/ \E k \in Idx : LiveWorker(k)
    \/ Elapse

LiveSpec ==
    /\ InitLive
    /\ [][NextLive]_vars
    /\ WF_vars(LiveCoordinator)
    /\ WF_vars(Elapse)
    /\ WF_vars(SigchldDelivered)
    /\ \A k \in Idx : WF_vars(LiveWorker(k))

\* The status reporter alone against the clock: a coordinator that has
\* installed its handlers, and SIGINT at any tick.
InitReport ==
    /\ buf = <<"a">>
    /\ target = "a"
    /\ env_p = <<"1">>
    /\ P = atoi(env_p)
    /\ Rest

NextReport == Startup \/ Tick \/ SigintCoordinator

SpecReport == InitReport /\ [][NextReport]_vars

\* The segment planner alone: the arithmetic every worker does with its
\* index, for each index in turn, on any length and any P >= 1.
InitPlan ==
    /\ buf \in {[j \in 1 .. n |-> "a"] : n \in 0 .. MaxPlanLen}
    /\ target = "a"
    /\ env_p \in {<<Digit[n + 1]>> : n \in 1 .. MaxPlanP}
    /\ P = atoi(env_p)
    /\ Rest

PlanSegment ==
    /\ Len(segs) < P
    /\ segs' = Append(segs, <<SegStart(Len(buf), P, Len(segs)),
                              SegSize(Len(buf), P, Len(segs))>>)
    /\ UNCHANGED <<buf, target, P, env_p, mainVars, sigVars, workerVars, timerVars,
                   reportVars, clock>>

SpecPlan == InitPlan /\ [][PlanSegment]_vars

\* ----------------------------------------------------------------- claims
Chan == 0 .. P - 1
AllData == P >= 1 /\ \A k \in Chan : recv[k] = "data"
JobFailed == result_file = <<>> /\ (pc = "exited" => exit_code # 0)
SigintTaken == SigintCoordinator \/ SigintDuringWaitpid

\* C1: when the wait on channel k times out the coordinator reports index k
\* and the whole job fails: no result is written and the exit status is not 0.
C1_TimeoutIsFatal ==
    \A k \in Idx :
        recv[k] = "timeout" => (k \in timeout_msgs /\ JobFailed)

\* C2: when channel k is at end of file before its count has arrived the
\* whole job fails: no result is written and the exit status is not 0.
C2_ClosedIsFatal ==
    \A k \in Idx : recv[k] = "closed" => JobFailed

\* C3: if the coordinator has received the count of every worker, its
\* aggregate (and the count it writes to the output file) is the count of one
\* sequential pass over the whole buffer, however the workers interleave.
C3_AggregateIsSequentialCount ==
    AllData =>
        /\ total_count = SequentialCount(buf, target)
        /\ result_file \in {<<>>, <<SequentialCount(buf, target)>>}

\* C3 witness: a finished job with more workers than bytes (one segment is
\* empty), every count received, and a positive count written out.
C3_Witness ==
    /\ pc = "exited"
    /\ exit_code = 0
    /\ AllData
    /\ P > Len(buf)
    /\ total_count >= 1
    /\ result_file = <<total_count>>

\* C4: the segments are ordered, pairwise disjoint, cover [0, total_length)
\* exactly, start at i*base + min(i, remainder), and the first `remainder`
\* of them have base + 1 elements, the others base: any two lengths differ
\* by at most 1.
C4_SegmentsPartition ==
    LET n == Len(buf)
        base == n \div P
        rem == n % P
        start(j) == segs[j][1]
        size(j) == segs[j][2]
        end(j) == start(j) + size(j)
        D == 1 .. Len(segs)
    IN /\ \A j \in D : start(j) = (j - 1) * base + Min(j - 1, rem)
       /\ \A j \in D : size(j) = (IF j - 1 < rem THEN base + 1 ELSE base)
       /\ \A j \in D : 0 <= start(j) /\ start(j) <= end(j) /\ end(j) <= n
       /\ \A j, l \in D : j < l => end(j) <= start(l)
       /\ \A j, l \in D : size(j) - size(l) <= 1
       /\ \A j \in D : j = 1 => start(j) = 0
       /\ \A j \in D : j > 1 => start(j) = end(j - 1)
       /\ Len(segs) = P => end(P) = n

\* C4 witness: the complete plan for more workers than bytes with a
\* remainder: some segments of one byte, then empty ones.
C4_Witness ==
    /\ Len(segs) = P
    /\ P > Len(buf)
    /\ Len(buf) >= 2
    /\ segs[1] = <<0, 1>>
    /\ segs[P] = <<Len(buf), 0>>

\* C5: active_children is decremented exactly once per worker termination:
\* with no SIGCHLD pending, the decrements made are as many as the workers
\* that have terminated, so the counter is 0 once all P have.
C5_OneDecrementPerTermination ==
    (Installed /\ ~sigchld_pending) =>
        active_children = P - Cardinality({k \in Idx : Terminated(k)})

\* C6: if a worker never sends data and never terminates, the coordinator
\* still ends, with a non-zero exit status.
C6_SilentWorkerEndsJob ==
    \A k \in Idx :
        (<>[](w[k] \in {"forked", "handler", "scan"}))
            => <>(pc = "exited" /\ exit_code # 0)

\* C7: the wait on one channel lasts at most the 5-second timeout counted
\* from the start of the receive on that channel, whatever signals arrive.
C7_WaitBoundedFromStart ==
    pc = "select" => clock - recv_start <= Timeout

\* C8: sigint_handler never runs inside a worker.
C8_NoHandlerInWorker ==
    \A k \in Idx : w[k] # "handler"

\* C9: a SIGINT in the same second as the last printed line prints nothing;
\* the first SIGINT, and every SIGINT at least one second after the one
\* before it, prints a line; a line is printed only by the SIGINT that is
\* being handled, at most one per SIGINT.
C9_DebouncePerSecond ==
    [][/\ SigintTaken =>
            /\ (lastPrintAt # -1 /\ TimeOf(clock) = TimeOf(lastPrintAt))
                   => UNCHANGED <<last_print, lastPrintAt>>
            /\ (lastTrig = -1 \/ clock - lastTrig >= TicksPerSec)
                   => (lastPrintAt # clock /\ lastPrintAt' = clock)
       /\ lastPrintAt' # lastPrintAt =>
            (SigintTaken /\ lastPrintAt' = clock)]_vars

\* C9 witness: a line printed a second or more after the start, and a later
\* SIGINT in the same second that printed nothing.
C9_Witness ==
    /\ lastPrintAt >= Start + TicksPerSec
    /\ lastTrig > lastPrintAt
    /\ TimeOf(lastTrig) = TimeOf(lastPrintAt)

\* C10: a SIGINT less than one second of real time after the last printed
\* line prints nothing, so no two lines are less than one second apart.
C10_NoTwoLinesWithinASecond ==
    [][(SigintTaken /\ lastPrintAt # -1
            /\ clock - lastPrintAt < DEBOUNCE_SEC * TicksPerSec)
          => UNCHANGED <<last_print, lastPrintAt>>]_vars

\* The fork loop has completed: every worker was spawned and the coordinator
\* has entered the collection loop.
EnteredCollecting == P >= 1 /\ \A k \in Chan : w[k] # "none"

\* C11: when the coordinator has exited after entering the collection loop,
\* every worker has terminated and its status has been collected.
C11_NoWorkerLeftBehind ==
    (pc = "exited" /\ EnteredCollecting) => \A k \in Chan : w[k] = "reaped"

\* C12: when the coordinator has exited after entering the collection loop,
\* it has closed every read end it opened.
C12_ReadEndsClosed ==
    (pc = "exited" /\ EnteredCollecting) => rd_open = {}

\* C13: bytes enter pipe k only by the single write of worker k: the pipe was
\* empty, the worker was scanning and has now written, the 8 bytes hold the
\* count of its own segment (0 for an empty segment) and no other pipe
\* gains bytes in that step; a worker that has written never writes again,
\* and a worker exits normally only after having written.
C13_WorkerWritesExactlyOnce ==
    [][\A k \in Idx :
          /\ pipe_avail'[k] > pipe_avail[k] =>
                /\ w[k] = "scan" /\ w'[k] = "wrote"
                /\ pipe_avail[k] = 0 /\ pipe_avail'[k] = COUNT_SIZE
                /\ pipe_val'[k] = ScanFrom(buf, target, SegStart(Len(buf), P, k),
                                           SegStart(Len(buf), P, k)
                                             + SegSize(Len(buf), P, k))
                /\ SegSize(Len(buf), P, k) = 0 => pipe_val'[k] = 0
                /\ \A j \in Idx \ {k} : pipe_avail'[j] <= pipe_avail[j]
          /\ w[k] = "wrote" => w'[k] \in {"wrote", "zombie"}
          /\ (wstatus'[k] = "exit0" /\ wstatus[k] # "exit0") => w[k] = "wrote"
      ]_vars

\* C13 witness: a worker with an empty segment has written its count 0,
\* exited normally, and the coordinator has received the 8 bytes.
C13_Witness ==
    \E k \in Chan :
        /\ SegSize(Len(buf), P, k) = 0
        /\ wstatus[k] = "exit0"
        /\ recv[k] = "data"
        /\ total_count >= 1

\* C14: the channels are received in the order 0, 1, ..., P-1, and while
\* worker i is silent the receive on channel i times out Timeout after it
\* began, whatever the other workers do in the meantime.
C14_ReceiveDependsOnOwnWorker ==
    /\ \A k \in Idx : recv[k] # "none" => \A j \in 0 .. k - 1 : recv[j] # "none"
    /\ pc \in {"select", "read"} => \A k \in Idx : recv[k] # "none" <=> k < i
    /\ (pc = "select" /\ ~Readable(i)) => deadline = recv_start + Timeout

\* C15: the aggregate written by a successful run does not depend on the
\* SIGINTs it received.  With the timing of SpecTrigger a run without SIGINT
\* times out on channel 0 before the worker writes and records 0; a run
\* with SIGINTs records the same.
C15_ResultIndependentOfTriggers ==
    /\ (pc = "exited" /\ exit_code = 0 /\ lastTrig = -1) => result_file = <<0>>
    /\ (pc = "exited" /\ exit_code = 0 /\ lastTrig # -1) => result_file = <<0>>

\* C16: a SIGINT taken by the coordinator, at any point from the
\* installation of the handlers to its exit, never ends the process: after
\* the step the coordinator has not exited and has no exit status.
C16_TriggerNeverTerminates ==
    [][SigintTaken => (Installed /\ pc' # "exited" /\ exit_code' = -1)]_vars

\* C16 witness: a job that has taken SIGINTs, one of them printed, and
\* still completed normally with every count received and a result written.
C16_Witness ==
    /\ lastTrig > Start
    /\ lastPrintAt # -1
    /\ pc = "exited"
    /\ exit_code = 0
    /\ AllData
    /\ P = MaxP
    /\ result_file = <<total_count>>

\* C17: in a job that passes the input checks, active_children is P from
\* before the first fork, never grows afterwards, and stays in 0..P.
C17_CounterNonIncreasing ==
    [][(P >= 1 /\ Len(buf) >= 1) =>
          /\ (pc = "start" /\ pc' # "start") =>
                (active_children' = P /\ \A k \in Idx : w'[k] = "none")
          /\ pc # "start" => active_children' <= active_children
          /\ pc' # "start" => active_children' \in 0 .. P
          /\ (pc' # "start" /\ \A k \in Idx : w'[k] = "none")
                => active_children' = P
      ]_vars

\* C17 witness: a job with MaxP workers whose counter has come down to 0
\* while the coordinator is still running.
C17_Witness ==
    /\ P = MaxP
    /\ Installed
    /\ active_children = 0

\* C18: when pipe() or fork() fails for some index the coordinator exits
\* there with a non-zero status and without any aggregate or result; once it
\* has, no further worker appears and nothing is received; and the
\* collection loop is only ever entered with all P workers spawned.
C18_SpawnFailureAborts ==
    [][/\ (pc \in {"pipe", "fork"} /\ pc' = "exited") =>
             /\ exit_code' # 0
             /\ result_file' = <<>>
             /\ total_count' = 0
             /\ \A k \in Idx : recv'[k] = "none"
             /\ \A k \in Idx : k >= i => w'[k] = "none"
       /\ (pc = "exited" /\ ~EnteredCollecting) =>
             /\ pc' = "exited" /\ exit_code' = exit_code
             /\ result_file' = result_file /\ recv' = recv
             /\ \A k \in Idx : w[k] = "none" => w'[k] = "none"
       /\ pc' \in {"select", "read", "close", "reap", "output"}
             => \A k \in Chan : w'[k] # "none"
      ]_vars

\* C18 witness: fork() or pipe() failed for index 1 after worker 0 was
\* started: the coordinator has exited with a failure status.
C18_Witness ==
    /\ pc = "exited"
    /\ P = MaxP
    /\ w[0] # "none"
    /\ w[P - 1] = "none"
    /\ exit_code = 1
    /\ result_file = <<>>

\* The value of P is the decimal numeral of a positive integer.
PositiveInteger(s) ==
    /\ Len(s) >= 1
    /\ \A j \in 1 .. Len(s) : IsDigit(s[j])
    /\ \E j \in 1 .. Len(s) : s[j] # "0"

\* C19: a job with an empty file, or with a value of P that is not a
\* positive integer, has exited with a non-zero status as soon as it has
\* left the start, with no pipe created and no worker spawned.
C19_InvalidInputExitsBeforeSpawning ==
    (pc # "start" /\ (Len(buf) = 0 \/ ~PositiveInteger(env_p))) =>
        /\ pc = "exited"
        /\ exit_code # 0
        /\ rd_open = {}
        /\ \A k \in Idx : w[k] = "none"

\* C20: a worker that comes to its write when no process holds the read end
\* of its pipe terminates there, by SIGPIPE or with exit(EXIT_FAILURE),
\* never with the success status, and puts nothing into the pipe; once
\* terminated that way it stays terminated and its pipe stays empty.
C20_FailedWriteEndsWorker ==
    [][\A k \in Idx :
          /\ (w[k] = "scan" /\ ~HasReader(k) /\ w'[k] # "scan"
                 /\ wstatus'[k] # "killed") =>
                /\ w'[k] = "zombie"
                /\ wstatus'[k] \in {"sigpipe", "exit1"}
                /\ pipe_avail'[k] = pipe_avail[k]
          /\ wstatus[k] \in {"sigpipe", "exit1"} =>
                /\ wstatus'[k] = wstatus[k]
                /\ w'[k] \in {"zombie", "reaped"}
                /\ pipe_avail'[k] = 0
      ]_vars

\* C20 witness: the coordinator timed out on channel k and closed its read
\* end, and worker k then failed its write.
C20_Witness ==
    \E k \in Chan :
        /\ recv[k] = "timeout"
        /\ k \notin rd_open
        /\ wstatus[k] \in {"sigpipe", "exit1"}

Phase ==
    CASE pc = "start" -> 0
      [] pc \in {"pipe", "fork"} -> 1
      [] pc \in {"select", "read", "close"} -> 2
      [] pc = "reap" -> 3
      [] pc = "output" -> 4
      [] OTHER -> 5

\* C22: in a run where nothing fails and every worker gets to run, the
\* coordinator eventually exits with status 0, whatever the interleaving of
\* worker exits, SIGCHLD and SIGINT; it never goes back to an earlier phase,
\* and it is in the collection loop or beyond only with all P workers spawned.
C22_FairRunReachesDone ==
    /\ <>(pc = "exited" /\ exit_code = 0)
    /\ [][Phase' >= Phase]_vars
    /\ [](Phase \in 2 .. 4 => EnteredCollecting)

\* C22 witness: the coordinator is done with status 0 after the SIGCHLD
\* handler had reaped every worker (the counter is 0) of a job with MaxP
\* workers, and after a SIGINT.
C22_Witness ==
    /\ pc = "exited"
    /\ exit_code = 0
    /\ P = MaxP
    /\ active_children = 0
    /\ lastTrig # -1
    /\ \A k \in Chan : w[k] = "reaped"

\* The workers of the job that have not terminated, spawned or not.
NotTerminated == {k \in Chan : ~Terminated(k)}

Zombies == {k \in Idx : w[k] = "zombie"}

\* C24: one run of the SIGCHLD handler (the pending notification is
\* consumed by a coordinator that goes on running) reaps every worker that is
\* a zombie at that moment, decrements the counter once for each of them, and
\* leaves every other worker as it is.
C24_CoalescedNotificationReapsAll ==
    [][(sigchld_pending /\ ~sigchld_pending' /\ pc' # "exited") =>
          /\ active_children' = active_children - Cardinality(Zombies)
          /\ \A k \in Idx :
                w'[k] = (IF k \in Zombies THEN "reaped" ELSE w[k])
      ]_vars

\* C24 witness: two workers have terminated before the handler ran; one
\* notification is pending for both.
C24_Witness ==
    /\ Installed
    /\ sigchld_pending
    /\ Cardinality(Zombies) >= 2
    /\ active_children = P

\* The processes that hold the write end of pipe k: -1 for the coordinator,
\* its index for a worker.
WriteHolders(k) ==
    (IF pc # "exited" /\ k \in wr_open THEN {-1} ELSE {})
        \cup {j \in Idx : Alive(j) /\ k \in wfd[j]}

\* C25: once the coordinator has gone past the spawning of worker k, only
\* worker k holds the write end of channel k (the coordinator has closed its
\* copy and no other worker inherited one); so when worker k has terminated
\* without writing, the receive on channel k sees the channel closed at
\* once: the coordinator never waits in select() on it, and no receive that
\* starts after the termination ends in a timeout.
C25_OnlyWorkerHoldsWriteEnd ==
    /\ \A k \in Idx :
          w[k] # "none" =>
             WriteHolders(k) = (IF Alive(k) THEN {k} ELSE {})
    /\ (pc = "select" /\ Terminated(i)) => Readable(i)
    /\ (pc = "read" /\ Terminated(i) /\ pipe_avail[i] = 0) => ~HasWriter(i)

\* Worker 0 was killed before it wrote, the coordinator has observed channel
\* 0 closed without any waiting, and a later worker is still running.
C25_Witness ==
    /\ P = MaxP
    /\ wstatus[0] = "killed"
    /\ recv[0] = "closed"
    /\ 0 \notin timeout_msgs
    /\ clock = Start
    /\ \E j \in Idx : j > 0 /\ Alive(j)

\* The workers created so far.
Spawned == {k \in Idx : w[k] # "none"}

\* A step of a worker process: a running worker changes its position.
WorkerStep == \E k \in Idx : Alive(k) /\ w'[k] # w[k]

\* C26: a worker is created only by the coordinator's own fork() of the
\* spawning loop, one per iteration, so a run whose spawning succeeded has
\* exactly the workers 0 .. P-1; no step of a worker creates a worker,
\* moves the coordinator's loops or touches what the coordinator collects,
\* and the output file is written only by the coordinator's output code.
C26_ExactlyPWorkers ==
    /\ [](Spawned \subseteq Chan)
    /\ [](pc \in {"select", "read", "close", "reap", "output"} =>
             (Spawned = Chan /\ Cardinality(Spawned) = P))
    /\ [][/\ \A k \in Idx :
               (w[k] = "none" /\ w'[k] # "none") =>
                  /\ pc = "fork" /\ pc' # "fork" /\ i = k
                  /\ w' = [w EXCEPT ![k] = "forked"]
          /\ WorkerStep =>
                /\ Spawned' = Spawned
                /\ UNCHANGED <<pc, i, total_count, child_count, read_bytes,
                               exit_code, result_file, rd_open, wr_open,
                               recv, timeout_msgs, active_children>>
          /\ result_file' # result_file =>
                (pc = "output" /\ pc' = "exited" /\ ~WorkerStep)
         ]_vars

\* A run with the largest number of workers, all of which left through
\* exit(EXIT_SUCCESS), has ended with the output file written.
C26_Witness ==
    /\ P = MaxP
    /\ Spawned = Chan
    /\ \A k \in Chan : wstatus[k] = "exit0"
    /\ pc = "exited"
    /\ exit_code = 0
    /\ result_file # <<>>

====
